---------------------------- MODULE Spec2Model ----------------------------
(***************************************************************************)
(* The containerd client wrapper of eliot (package runtime,                *)
(* ContainerdClient) driven against an abstract containerd engine.         *)
(*                                                                         *)
(* Every public method is a small sequential program; each call it makes   *)
(* to the engine is one atomic step, so that callers sharing one client    *)
(* instance interleave between engine calls.  The engine answers a call    *)
(* either from its own state or with a transport failure (and, when the    *)
(* call's context carries a deadline, with DeadlineExceeded).              *)
(***************************************************************************)
EXTENDS Integers, Sequences, FiniteSets, TLC

(***************************************************************************)
(* Bounds of the model.                                                    *)
(***************************************************************************)
\* connections the engine accepts in one behaviour
MaxConns == 4
\* longest namespace listing the engine reports
MaxNs == 3

Procs == {"p1", "p2"}
CIDs == {"c1"}
Refs == {"reg/app:1"}
PodNamespaces == {"edge"}
NsNames == {"default", "staging", "prod", "dev"}
Timeouts == {0, 1}

\* model.DefaultNamespace
DefaultNamespace == "default"
\* var snapshotter
snapshotter == "overlayfs"

NoConn == 0
Handles == 1..MaxConns

(***************************************************************************)
(* Errors.  An error is the kind of the engine error at its root and the   *)
(* messages wrapped around it, outermost first.  A message is the sequence *)
(* of tokens fmt.Sprintf produces.                                         *)
(***************************************************************************)
NoErr == [kind |-> "none", msgs |-> <<>>]
RawErr(k) == [kind |-> k, msgs |-> <<>>]

RECURSIVE Sprintf(_, _)
Sprintf(format, args) ==
  IF format = <<>>
    THEN IF args = <<>> THEN <<>> ELSE <<"%!(EXTRA">> \o args \o <<")">>
    ELSE IF Head(format) = "%s"
      THEN IF args = <<>>
             THEN <<"%!s(MISSING)">> \o Sprintf(Tail(format), args)
             ELSE <<Head(args)>> \o Sprintf(Tail(format), Tail(args))
      ELSE <<Head(format)>> \o Sprintf(Tail(format), args)

Wrapf(err, format, args) ==
  [kind |-> err.kind, msgs |-> <<Sprintf(format, args)>> \o err.msgs]

Wrap(err, msg) == Wrapf(err, <<msg>>, <<>>)

\* errdefs.IsNotFound
IsNotFound(err) == err.kind = "NotFound"

Digest(ref) == IF ref = "reg/app:1" THEN "sha256:app1" ELSE "sha256:other"
NoImage == [name |-> "", digest |-> ""]
ImageOf(ref) == [name |-> ref, digest |-> Digest(ref)]

(***************************************************************************)
(* State.                                                                  *)
(***************************************************************************)
VARIABLES
  client,      \* ContainerdClient.client
  timeout,     \* ContainerdClient.timeout
  callers,     \* the goroutines that call into the client instance
  pc,          \* where each caller stands inside the method it runs
  op,          \* the method a caller runs, or ran last
  arg,         \* its arguments
  lclient,     \* the method's local `client`
  eclient,     \* ensureImagePulled's local `client`
  image,       \* the local `image`
  ctxs,        \* the contexts of the invocation: the method's, then ensureImagePulled's
  ret,         \* what the last invocation returned
  trace,       \* the engine calls of the invocation, in order
  resets,      \* resetConnection calls of the invocation
  prev,        \* how the operation before this invocation ended
  lastFail,    \* how the operation that returned last ended
  conns,       \* engine: the namespace of every connection accepted so far
  containers,  \* engine: ids of the containers that exist
  tasks,       \* engine: the tasks, [cid, status]
  images,      \* engine: image store, per reference
  nsList,      \* engine: the namespaces, in listing order
  held,        \* the container objects callers hold: the connection each is bound to
  daemon       \* eliotd's start action: its flags, where it stands, what it built

vars == <<client, timeout, callers, pc, op, arg, lclient, eclient, image, ctxs,
          ret, trace, resets, prev, lastFail, conns, containers, tasks, images,
          nsList, held, daemon>>

engineVars == <<conns, containers, tasks, images, nsList>>
configVars == <<timeout, callers>>

NoArg == [cid |-> "", conn |-> NoConn, ns |-> "", ref |-> ""]
NoRet == [status |-> "none", err |-> NoErr, bool |-> FALSE, str |-> "",
          names |-> <<>>, cids |-> {}, image |-> NoImage]
OkRet == [NoRet EXCEPT !.status = "ok"]
ErrRet(e) == [NoRet EXCEPT !.status = "err", !.err = e]
NoFail == [failed |-> FALSE, conn |-> NoConn, op |-> ""]

RECURSIVE SeqsOver(_, _)
SeqsOver(S, n) ==
  IF n = 0 THEN {<<>>}
  ELSE LET shorter == SeqsOver(S, n - 1)
       IN shorter \cup {Append(s, x) : s \in {t \in shorter : Len(t) = n - 1}, x \in S}

Range(s) == {s[i] : i \in 1..Len(s)}
NoDuplicates(s) == Cardinality(Range(s)) = Len(s)
\* the engine keeps namespaces by name: a listing never repeats one
NsListings == {s \in SeqsOver(NsNames, MaxNs) : NoDuplicates(s)}

(***************************************************************************)
(* Contexts (getContext) and the outcomes of engine calls.                 *)
(***************************************************************************)
getContext(t) == [deadline |-> t > 0, expired |-> FALSE, cancelled |-> FALSE]

Ok == [ok |-> TRUE, kind |-> "none"]
Fail(k) == [ok |-> FALSE, kind |-> k]

Transient(ctx) == {"Unavailable"} \cup (IF ctx.deadline THEN {"DeadlineExceeded"} ELSE {})

\* what a call under ctx can answer when the engine itself would answer sem
Outcomes(ctx, sem) ==
  IF ctx.expired THEN {Fail("DeadlineExceeded")}
  ELSE {sem} \cup {Fail(k) : k \in Transient(ctx)}

Expire(ctx, o) == IF o.kind = "DeadlineExceeded" THEN [ctx EXCEPT !.expired = TRUE] ELSE ctx

CancelAll(cs) == [i \in 1..Len(cs) |-> [cs[i] EXCEPT !.cancelled = TRUE]]

HasTask(cid) == \E t \in tasks : t.cid = cid
TaskOf(cid) == CHOOSE t \in tasks : t.cid = cid

\* what the engine holds for container cid when a call reaches it
TaskView(cid) == IF HasTask(cid) THEN TaskOf(cid).status ELSE "none"

\* one call of an invocation: the connection it went out on, what it
\* answered, and the task the engine held for the container at that moment
Call(name, h, o, cid) ==
  [call |-> name, conn |-> h, ok |-> o.ok, kind |-> o.kind, task |-> TaskView(cid)]

TypeOK ==
  /\ client \in Handles \cup {NoConn}
  /\ timeout \in Timeouts
  /\ callers \subseteq Procs
  /\ \A p \in Procs :
       /\ lclient[p] \in Handles \cup {NoConn}
       /\ eclient[p] \in Handles \cup {NoConn}
       /\ Len(ctxs[p]) <= 2
       /\ ret[p].status \in {"none", "ok", "err"}
       /\ resets[p] \in 0..2
  /\ Len(conns) <= MaxConns
  /\ containers \subseteq CIDs
  /\ \A t \in tasks : t.cid \in CIDs /\ t.status \in {"CREATED", "RUNNING", "STOPPED"}
  /\ nsList \in NsListings

\* the client as NewContainerdClient returns it, driven by the callers cs,
\* against an engine whose namespace listing is one of listings
ClientInit(cs, listings) ==
  /\ client = NoConn
  /\ timeout \in Timeouts
  /\ callers = cs
  /\ pc = [p \in Procs |-> "idle"]
  /\ op = [p \in Procs |-> "none"]
  /\ arg = [p \in Procs |-> NoArg]
  /\ lclient = [p \in Procs |-> NoConn]
  /\ eclient = [p \in Procs |-> NoConn]
  /\ image = [p \in Procs |-> NoImage]
  /\ ctxs = [p \in Procs |-> <<>>]
  /\ ret = [p \in Procs |-> NoRet]
  /\ trace = [p \in Procs |-> <<>>]
  /\ resets = [p \in Procs |-> 0]
  /\ prev = [p \in Procs |-> NoFail]
  /\ lastFail = NoFail
  /\ conns = <<>>
  /\ containers = {}
  /\ tasks = {}
  /\ images = [r \in Refs |-> "absent"]
  /\ nsList \in listings
  /\ held = [c \in CIDs |-> NoConn]

\* eliotd's flags: the address as strings.Split sees it, ":" a token of its own
DefaultListen == <<"localhost", ":", "5000">>
NothingToRun == "Nothing to run. You should enable one of [grpc-api, lifecycle-controller, discovery]"

\* eliotd run with its defaults (every BoolTFlag true), serving
Served ==
  [pc |-> "serving", grpcApi |-> TRUE, lifecycle |-> TRUE, discovery |-> TRUE,
   grpcListen |-> DefaultListen, services |-> <<"api", "lifecycle", "discovery">>,
   serviceCount |-> 3, port |-> 5000, err |-> ""]

\* the client inside a serving eliotd
InitWith(cs, listings) == ClientInit(cs, listings) /\ daemon = Served

Init == InitWith({"p1"}, {<<"default", "staging", "prod">>})


(***************************************************************************)
(* Pieces shared by the methods.                                           *)
(***************************************************************************)
frameVars == <<op, arg, prev, timeout, callers, daemon>>

\* a method is entered: ctx, cancel := c.getContext(); defer cancel()
Enter(p, name, a, first) ==
  /\ p \in callers
  /\ pc[p] = "idle"
  /\ pc' = [pc EXCEPT ![p] = first]
  /\ op' = [op EXCEPT ![p] = name]
  /\ arg' = [arg EXCEPT ![p] = a]
  /\ lclient' = [lclient EXCEPT ![p] = NoConn]
  /\ eclient' = [eclient EXCEPT ![p] = NoConn]
  /\ image' = [image EXCEPT ![p] = NoImage]
  /\ ctxs' = [ctxs EXCEPT ![p] = <<getContext(timeout)>>]
  /\ ret' = [ret EXCEPT ![p] = NoRet]
  /\ trace' = [trace EXCEPT ![p] = <<>>]
  /\ resets' = [resets EXCEPT ![p] = 0]
  /\ prev' = [prev EXCEPT ![p] = lastFail]
  /\ UNCHANGED <<client, lastFail, engineVars, held, timeout, callers, daemon>>

\* the method goes on to its next engine call
Continue(p, next, cs) ==
  /\ pc' = [pc EXCEPT ![p] = next]
  /\ ctxs' = [ctxs EXCEPT ![p] = cs]
  /\ UNCHANGED <<ret, lastFail>>

\* a return whose deferred cancel()s are missing
ReturnNoCancel(p, r, used, cs) ==
  /\ pc' = [pc EXCEPT ![p] = "idle"]
  /\ ctxs' = [ctxs EXCEPT ![p] = cs]
  /\ ret' = [ret EXCEPT ![p] = r]
  /\ lastFail' = [failed |-> r.status = "err",
                  conn |-> IF r.status = "err" THEN used ELSE NoConn,
                  op |-> op[p]]

\* the method returns r; the deferred cancel()s run
Return(p, r, used, cs) ==
  /\ pc' = [pc EXCEPT ![p] = "idle"]
  /\ ctxs' = [ctxs EXCEPT ![p] = CancelAll(cs)]
  /\ ret' = [ret EXCEPT ![p] = r]
  /\ lastFail' = [failed |-> r.status = "err",
                  conn |-> IF r.status = "err" THEN used ELSE NoConn,
                  op |-> op[p]]

resetConnection(p) ==
  /\ client' = NoConn
  /\ resets' = [resets EXCEPT ![p] = @ + 1]

NoReset == UNCHANGED <<client, resets>>

Log(p, e) == trace' = [trace EXCEPT ![p] = Append(@, e)]

\* containerd.New: the engine accepts the connection or the dial fails
ConnOutcomes == (IF Len(conns) < MaxConns THEN {Ok} ELSE {}) \cup {Fail("Unavailable")}

\* a getConnection that hands out the connection made last instead of a new one
getConnectionReuse(o) ==
  IF o.ok
    THEN [client |-> IF Len(conns) = 0 THEN 1 ELSE Len(conns), err |-> NoErr]
    ELSE [client |-> NoConn,
          err |-> Wrapf(RawErr(o.kind), <<"Unable to create connection to containerd">>, <<>>)]

getConnection(o) ==
  IF o.ok
    THEN [client |-> Len(conns) + 1, err |-> NoErr]
    ELSE [client |-> NoConn,
          err |-> Wrapf(RawErr(o.kind), <<"Unable to create connection to containerd">>, <<>>)]

Dial(o, ns) == conns' = IF o.ok THEN Append(conns, ns) ELSE conns

WithExpiry(p, i, o) == [ctxs[p] EXCEPT ![i] = Expire(@, o)]

(***************************************************************************)
(* GetContainers                                                           *)
(***************************************************************************)
GetContainersEnter(p) ==
  \E ns \in PodNamespaces :
    Enter(p, "GetContainers", [NoArg EXCEPT !.ns = ns], "gc_conn")

\* a GetContainers over a lazily cached connection: c.client is used when
\* set, and set when a connection is made
GetContainersConnectCached(p) ==
  /\ pc[p] = "gc_conn"
  /\ IF client # NoConn
       THEN /\ lclient' = [lclient EXCEPT ![p] = client]
            /\ Continue(p, "gc_list", ctxs[p])
            /\ UNCHANGED <<client, conns, trace, resets>>
       ELSE \E o \in ConnOutcomes :
              LET r == getConnection(o) IN
                /\ Dial(o, arg[p].ns)
                /\ lclient' = [lclient EXCEPT ![p] = r.client]
                /\ client' = r.client
                /\ Log(p, Call("New", r.client, o, arg[p].cid))
                /\ UNCHANGED resets
                /\ IF o.ok THEN Continue(p, "gc_list", ctxs[p])
                           ELSE Return(p, ErrRet(r.err), NoConn, ctxs[p])
  /\ UNCHANGED <<eclient, image, containers, tasks, images, nsList, held, frameVars>>

GetContainersConnect(p) ==
  /\ pc[p] = "gc_conn"
  /\ \E o \in ConnOutcomes :
       LET r == getConnection(o) IN
         /\ Dial(o, arg[p].ns)
         /\ lclient' = [lclient EXCEPT ![p] = r.client]
         /\ Log(p, Call("New", r.client, o, arg[p].cid))
         /\ NoReset
         /\ IF o.ok THEN Continue(p, "gc_list", ctxs[p])
                    ELSE Return(p, ErrRet(r.err), NoConn, ctxs[p])
  /\ UNCHANGED <<eclient, image, containers, tasks, images, nsList, held, frameVars>>

\* a GetContainers that asks for the list a second time when the first
\* request fails
GetContainersListRetry(p) ==
  /\ pc[p] = "gc_list"
  /\ \E o \in Outcomes(ctxs[p][1], Ok) :
       /\ Log(p, Call("Containers", lclient[p], o, arg[p].cid))
       /\ IF o.ok
            THEN /\ NoReset
                 /\ held' = [c \in CIDs |-> IF c \in containers THEN lclient[p] ELSE held[c]]
                 /\ Return(p, [OkRet EXCEPT !.cids = containers], lclient[p], ctxs[p])
            ELSE /\ resetConnection(p)
                 /\ UNCHANGED held
                 /\ IF \E i \in DOMAIN trace[p] : trace[p][i].call = "Containers"
                      THEN Return(p, ErrRet(Wrap(RawErr(o.kind), "Error while getting list of containers")),
                                  lclient[p], WithExpiry(p, 1, o))
                      ELSE Continue(p, "gc_list", WithExpiry(p, 1, o))
  /\ UNCHANGED <<lclient, eclient, image, engineVars, frameVars>>

GetContainersList(p) ==
  /\ pc[p] = "gc_list"
  /\ \E o \in Outcomes(ctxs[p][1], Ok) :
       /\ Log(p, Call("Containers", lclient[p], o, arg[p].cid))
       /\ IF o.ok
            THEN /\ NoReset
                 /\ held' = [c \in CIDs |-> IF c \in containers THEN lclient[p] ELSE held[c]]
                 /\ Return(p, [OkRet EXCEPT !.cids = containers], lclient[p], ctxs[p])
            ELSE /\ resetConnection(p)
                 /\ UNCHANGED held
                 /\ Return(p, ErrRet(Wrap(RawErr(o.kind), "Error while getting list of containers")),
                           lclient[p], WithExpiry(p, 1, o))
  /\ UNCHANGED <<lclient, eclient, image, engineVars, frameVars>>

GetContainers(p) ==
  \/ GetContainersEnter(p)
  \/ GetContainersConnect(p)
  \/ GetContainersList(p)

(***************************************************************************)
(* CreateContainer and ensureImagePulled                                   *)
(***************************************************************************)
CreateContainerEnter(p) ==
  \E cid \in CIDs, ref \in Refs, ns \in PodNamespaces :
    Enter(p, "CreateContainer", [NoArg EXCEPT !.cid = cid, !.ref = ref, !.ns = ns], "cc_conn")

CreateContainerConnect(p) ==
  /\ pc[p] = "cc_conn"
  /\ \E o \in ConnOutcomes :
       LET r == getConnection(o) IN
         /\ Dial(o, arg[p].ns)
         /\ lclient' = [lclient EXCEPT ![p] = r.client]
         /\ Log(p, Call("New", r.client, o, arg[p].cid))
         /\ NoReset
         /\ IF o.ok THEN Continue(p, "cc_ensure", ctxs[p])
                    ELSE Return(p, ErrRet(r.err), NoConn, ctxs[p])
  /\ UNCHANGED <<eclient, image, containers, tasks, images, nsList, held, frameVars>>

\* CreateContainer calls c.ensureImagePulled, which takes a context of its own
ensureImagePulledEnter(p) ==
  /\ pc[p] = "cc_ensure"
  /\ Log(p, Call("ensureImagePulled", NoConn, Ok, arg[p].cid))
  /\ NoReset
  /\ Continue(p, "eip_conn", Append(ctxs[p], getContext(timeout)))
  /\ UNCHANGED <<lclient, eclient, image, engineVars, held, frameVars>>

\* an ensureImagePulled that works on the connection CreateContainer made
ensureImagePulledConnectShared(p) ==
  /\ pc[p] = "eip_conn"
  /\ eclient' = [eclient EXCEPT ![p] = lclient[p]]
  /\ NoReset
  /\ Continue(p, "eip_pull", ctxs[p])
  /\ UNCHANGED <<lclient, image, conns, trace, containers, tasks, images, nsList, held, frameVars>>

ensureImagePulledConnect(p) ==
  /\ pc[p] = "eip_conn"
  /\ \E o \in ConnOutcomes :
       LET r == getConnection(o) IN
         /\ Dial(o, arg[p].ns)
         /\ eclient' = [eclient EXCEPT ![p] = r.client]
         /\ Log(p, Call("New", r.client, o, arg[p].cid))
         /\ NoReset
         /\ IF o.ok THEN Continue(p, "eip_pull", ctxs[p])
                    ELSE Return(p, ErrRet(r.err), NoConn, ctxs[p])
  /\ UNCHANGED <<lclient, image, containers, tasks, images, nsList, held, frameVars>>

\* an ensureImagePulled that keeps the connection when Pull fails
ensureImagePulledPullNoReset(p) ==
  /\ pc[p] = "eip_pull"
  /\ \E o \in Outcomes(ctxs[p][2], Ok) :
       /\ Log(p, Call("Pull", eclient[p], o, arg[p].cid))
       /\ NoReset
       /\ IF o.ok
            THEN /\ image' = [image EXCEPT ![p] = ImageOf(arg[p].ref)]
                 /\ images' = [images EXCEPT ![arg[p].ref] = IF @ = "absent" THEN "pulled" ELSE @]
                 /\ Continue(p, "eip_unpack", ctxs[p])
            ELSE /\ UNCHANGED <<image, images>>
                 /\ Return(p, ErrRet(Wrapf(RawErr(o.kind), <<"Error pulling image [", "%s", "]">>,
                                           <<arg[p].ref>>)),
                           eclient[p], WithExpiry(p, 2, o))
  /\ UNCHANGED <<lclient, eclient, conns, containers, tasks, nsList, held, frameVars>>

ensureImagePulledPull(p) ==
  /\ pc[p] = "eip_pull"
  /\ \E o \in Outcomes(ctxs[p][2], Ok) :
       /\ Log(p, Call("Pull", eclient[p], o, arg[p].cid))
       /\ IF o.ok
            THEN /\ NoReset
                 /\ image' = [image EXCEPT ![p] = ImageOf(arg[p].ref)]
                 /\ images' = [images EXCEPT ![arg[p].ref] = IF @ = "absent" THEN "pulled" ELSE @]
                 /\ Continue(p, "eip_unpack", ctxs[p])
            ELSE /\ resetConnection(p)
                 /\ UNCHANGED <<image, images>>
                 /\ Return(p, ErrRet(Wrapf(RawErr(o.kind), <<"Error pulling image [", "%s", "]">>,
                                           <<arg[p].ref>>)),
                           eclient[p], WithExpiry(p, 2, o))
  /\ UNCHANGED <<lclient, eclient, conns, containers, tasks, nsList, held, frameVars>>

\* an ensureImagePulled that drops what Unpack answers
ensureImagePulledUnpackUnchecked(p) ==
  /\ pc[p] = "eip_unpack"
  /\ \E o \in Outcomes(ctxs[p][2], Ok) :
       /\ Log(p, Call("Unpack", eclient[p], o, arg[p].cid))
       /\ NoReset
       /\ images' = [images EXCEPT ![arg[p].ref] = IF o.ok THEN "unpacked" ELSE @]
       /\ Continue(p, "cc_spec", [WithExpiry(p, 2, o) EXCEPT ![2].cancelled = TRUE])
  /\ UNCHANGED <<lclient, eclient, image, conns, containers, tasks, nsList, held, frameVars>>

ensureImagePulledUnpack(p) ==
  /\ pc[p] = "eip_unpack"
  /\ \E o \in Outcomes(ctxs[p][2], Ok) :
       /\ Log(p, Call("Unpack", eclient[p], o, arg[p].cid))
       /\ IF o.ok
            THEN /\ NoReset
                 /\ images' = [images EXCEPT ![arg[p].ref] = "unpacked"]
                 \* ensureImagePulled returns: its deferred cancel() runs
                 /\ Continue(p, "cc_spec", [ctxs[p] EXCEPT ![2].cancelled = TRUE])
            ELSE /\ resetConnection(p)
                 /\ UNCHANGED images
                 /\ Return(p, ErrRet(Wrapf(RawErr(o.kind), <<"Error while unpacking image [", "%s", "]">>,
                                           <<image[p].digest>>)),
                           eclient[p], WithExpiry(p, 2, o))
  /\ UNCHANGED <<lclient, eclient, image, conns, containers, tasks, nsList, held, frameVars>>

ensureImagePulled(p) ==
  \/ ensureImagePulledEnter(p)
  \/ ensureImagePulledConnect(p)
  \/ ensureImagePulledPull(p)
  \/ ensureImagePulledUnpack(p)

CreateContainerSpec(p) ==
  /\ pc[p] = "cc_spec"
  /\ \E o \in Outcomes(ctxs[p][1], Ok) :
       /\ Log(p, Call("GenerateSpec", lclient[p], o, arg[p].cid))
       /\ NoReset
       /\ IF o.ok
            THEN Continue(p, "cc_new", ctxs[p])
            ELSE Return(p, ErrRet(RawErr(o.kind)), lclient[p], WithExpiry(p, 1, o))
  /\ UNCHANGED <<lclient, eclient, image, engineVars, held, frameVars>>

CreateContainerNew(p) ==
  /\ pc[p] = "cc_new"
  /\ LET cid == arg[p].cid
         sem == IF cid \in containers THEN Fail("AlreadyExists") ELSE Ok
     IN \E o \in Outcomes(ctxs[p][1], sem) :
          /\ Log(p, Call("NewContainer", lclient[p], o, arg[p].cid))
          /\ IF o.ok
               THEN /\ NoReset
                    /\ containers' = containers \cup {cid}
                    /\ held' = [held EXCEPT ![cid] = lclient[p]]
                    /\ Return(p, [OkRet EXCEPT !.cids = {cid}], lclient[p], ctxs[p])
               ELSE /\ resetConnection(p)
                    /\ UNCHANGED <<containers, held>>
                    /\ Return(p, ErrRet(Wrapf(RawErr(o.kind),
                                              <<"Failed to create new container from image ", "%s">>,
                                              <<image[p].name>>)),
                              lclient[p], WithExpiry(p, 1, o))
  /\ UNCHANGED <<lclient, eclient, image, conns, tasks, images, nsList, frameVars>>

CreateContainer(p) ==
  \/ CreateContainerEnter(p)
  \/ CreateContainerConnect(p)
  \/ ensureImagePulled(p)
  \/ CreateContainerSpec(p)
  \/ CreateContainerNew(p)

(***************************************************************************)
(* StartContainer, StopContainer, IsContainerRunning: they work on a       *)
(* container object the caller got from CreateContainer or GetContainers;  *)
(* the object issues its calls on the connection it was made with.         *)
(*                                                                         *)
(* The engine keeps tasks by container id: it refuses NewTask for a        *)
(* container that has a task (AlreadyExists), and refuses to delete a      *)
(* container that still has one (FailedPrecondition).                      *)
(***************************************************************************)
ContainerArgs == {[NoArg EXCEPT !.cid = c, !.conn = held[c]] : c \in {d \in CIDs : held[d] # NoConn}}

StartContainerEnter(p) ==
  \E a \in ContainerArgs : Enter(p, "StartContainer", a, "sc_newtask")

StartContainerNewTask(p) ==
  /\ pc[p] = "sc_newtask"
  /\ LET cid == arg[p].cid
         sem == IF cid \notin containers THEN Fail("NotFound")
                ELSE IF HasTask(cid) THEN Fail("AlreadyExists") ELSE Ok
     IN \E o \in Outcomes(ctxs[p][1], sem) :
          /\ Log(p, Call("NewTask", arg[p].conn, o, arg[p].cid))
          /\ IF o.ok
               THEN /\ NoReset
                    /\ tasks' = tasks \cup {[cid |-> cid, status |-> "CREATED"]}
                    /\ Continue(p, "sc_start", ctxs[p])
               ELSE /\ resetConnection(p)
                    /\ UNCHANGED tasks
                    /\ Return(p, ErrRet(Wrapf(RawErr(o.kind),
                                              <<"Error while creating task for container [", "%s", "]">>,
                                              <<cid>>)),
                              arg[p].conn, WithExpiry(p, 1, o))
  /\ UNCHANGED <<lclient, eclient, image, conns, containers, images, nsList, held, frameVars>>

StartContainerStart(p) ==
  /\ pc[p] = "sc_start"
  /\ LET cid == arg[p].cid
         sem == IF ~HasTask(cid) THEN Fail("NotFound")
                ELSE IF TaskOf(cid).status # "CREATED" THEN Fail("FailedPrecondition") ELSE Ok
     IN \E o \in Outcomes(ctxs[p][1], sem) :
          /\ Log(p, Call("Start", arg[p].conn, o, arg[p].cid))
          /\ IF o.ok
               THEN /\ NoReset
                    /\ tasks' = (tasks \ {TaskOf(cid)}) \cup {[cid |-> cid, status |-> "RUNNING"]}
                    /\ Return(p, OkRet, arg[p].conn, ctxs[p])
               ELSE /\ resetConnection(p)
                    /\ UNCHANGED tasks
                    /\ Return(p, ErrRet(Wrapf(RawErr(o.kind),
                                              <<"Failed to start task in container">>,
                                              <<cid>>)),
                              arg[p].conn, WithExpiry(p, 1, o))
  /\ UNCHANGED <<lclient, eclient, image, conns, containers, images, nsList, held, frameVars>>

StartContainer(p) ==
  \/ StartContainerEnter(p)
  \/ StartContainerNewTask(p)
  \/ StartContainerStart(p)

\* a StopContainer that waits while another caller's StopContainer is under way
StopContainerEnterSerialized(p) ==
  /\ \A q \in Procs \ {p} : ~(op[q] = "StopContainer" /\ pc[q] # "idle")
  /\ \E a \in ContainerArgs : Enter(p, "StopContainer", a, "st_task")

StopContainerEnter(p) ==
  \E a \in ContainerArgs : Enter(p, "StopContainer", a, "st_task")

\* a StopContainer that returns when it cannot fetch the task
StopContainerTaskStrict(p) ==
  /\ pc[p] = "st_task"
  /\ LET sem == IF HasTask(arg[p].cid) THEN Ok ELSE Fail("NotFound")
     IN \E o \in Outcomes(ctxs[p][1], sem) :
          /\ Log(p, Call("Task", arg[p].conn, o, arg[p].cid))
          /\ IF o.ok
               THEN /\ NoReset
                    /\ Continue(p, "st_tdel", ctxs[p])
               ELSE /\ resetConnection(p)
                    /\ Return(p, ErrRet(Wrapf(RawErr(o.kind),
                                              <<"Failed to get task of container ", "%s">>,
                                              <<arg[p].cid>>)),
                              arg[p].conn, WithExpiry(p, 1, o))
  /\ UNCHANGED <<lclient, eclient, image, engineVars, held, frameVars>>

\* task, err := container.Task(ctx, nil)
StopContainerTask(p) ==
  /\ pc[p] = "st_task"
  /\ LET sem == IF HasTask(arg[p].cid) THEN Ok ELSE Fail("NotFound")
     IN \E o \in Outcomes(ctxs[p][1], sem) :
          /\ Log(p, Call("Task", arg[p].conn, o, arg[p].cid))
          /\ Continue(p, IF o.ok THEN "st_tdel" ELSE "st_cdel", WithExpiry(p, 1, o))
  /\ NoReset
  /\ UNCHANGED <<lclient, eclient, image, engineVars, held, frameVars>>

\* task.Delete(ctx, containerd.WithProcessKill): what it answers is dropped
StopContainerTaskDelete(p) ==
  /\ pc[p] = "st_tdel"
  /\ LET cid == arg[p].cid
         sem == IF HasTask(cid) THEN Ok ELSE Fail("NotFound")
     IN \E o \in Outcomes(ctxs[p][1], sem) :
          /\ Log(p, Call("TaskDelete", arg[p].conn, o, arg[p].cid))
          /\ tasks' = IF o.ok THEN tasks \ {TaskOf(cid)} ELSE tasks
          /\ Continue(p, "st_cdel", WithExpiry(p, 1, o))
  /\ NoReset
  /\ UNCHANGED <<lclient, eclient, image, conns, containers, images, nsList, held, frameVars>>

\* container.Delete(ctx, containerd.WithSnapshotCleanup)
StopContainerDelete(p) ==
  /\ pc[p] = "st_cdel"
  /\ LET cid == arg[p].cid
         sem == IF cid \notin containers THEN Fail("NotFound")
                ELSE IF HasTask(cid) THEN Fail("FailedPrecondition") ELSE Ok
     IN \E o \in Outcomes(ctxs[p][1], sem) :
          /\ Log(p, Call("ContainerDelete", arg[p].conn, o, arg[p].cid))
          /\ IF o.ok
               THEN /\ NoReset
                    /\ containers' = containers \ {cid}
                    /\ Return(p, OkRet, arg[p].conn, ctxs[p])
               ELSE /\ resetConnection(p)
                    /\ UNCHANGED containers
                    /\ Return(p, ErrRet(Wrapf(RawErr(o.kind),
                                              <<"Failed to delete container ", "%s">>, <<cid>>)),
                              arg[p].conn, WithExpiry(p, 1, o))
  /\ UNCHANGED <<lclient, eclient, image, conns, tasks, images, nsList, held, frameVars>>

StopContainer(p) ==
  \/ StopContainerEnter(p)
  \/ StopContainerTask(p)
  \/ StopContainerTaskDelete(p)
  \/ StopContainerDelete(p)

IsContainerRunningEnter(p) ==
  \E a \in ContainerArgs : Enter(p, "IsContainerRunning", a, "ir_task")

\* an IsContainerRunning that treats a failed lookup like the other methods
\* do: resetConnection and a wrapped error
IsContainerRunningTaskReset(p) ==
  /\ pc[p] = "ir_task"
  /\ LET sem == IF HasTask(arg[p].cid) THEN Ok ELSE Fail("NotFound")
     IN \E o \in Outcomes(ctxs[p][1], sem) :
          /\ Log(p, Call("Task", arg[p].conn, o, arg[p].cid))
          /\ IF o.ok
               THEN /\ NoReset
                    /\ Return(p, [OkRet EXCEPT !.bool = TRUE], arg[p].conn, ctxs[p])
               ELSE IF IsNotFound(RawErr(o.kind))
                 THEN /\ NoReset
                      /\ Return(p, [OkRet EXCEPT !.bool = FALSE], arg[p].conn, ctxs[p])
                 ELSE /\ resetConnection(p)
                      /\ Return(p, [ErrRet(Wrap(RawErr(o.kind), "Error while getting task"))
                                      EXCEPT !.bool = FALSE],
                                arg[p].conn, WithExpiry(p, 1, o))
  /\ UNCHANGED <<lclient, eclient, image, engineVars, held, frameVars>>

\* an IsContainerRunning that takes every answer but not-found for a task
IsContainerRunningTaskAnyAnswer(p) ==
  /\ pc[p] = "ir_task"
  /\ LET sem == IF HasTask(arg[p].cid) THEN Ok ELSE Fail("NotFound")
     IN \E o \in Outcomes(ctxs[p][1], sem) :
          /\ Log(p, Call("Task", arg[p].conn, o, arg[p].cid))
          /\ IF IsNotFound(RawErr(o.kind))
               THEN Return(p, [OkRet EXCEPT !.bool = FALSE], arg[p].conn, ctxs[p])
               ELSE Return(p, [OkRet EXCEPT !.bool = TRUE], arg[p].conn, WithExpiry(p, 1, o))
  /\ NoReset
  /\ UNCHANGED <<lclient, eclient, image, engineVars, held, frameVars>>

IsContainerRunningTask(p) ==
  /\ pc[p] = "ir_task"
  /\ LET sem == IF HasTask(arg[p].cid) THEN Ok ELSE Fail("NotFound")
     IN \E o \in Outcomes(ctxs[p][1], sem) :
          /\ Log(p, Call("Task", arg[p].conn, o, arg[p].cid))
          /\ IF o.ok
               THEN Return(p, [OkRet EXCEPT !.bool = TRUE], arg[p].conn, ctxs[p])
               ELSE IF IsNotFound(RawErr(o.kind))
                 THEN Return(p, [OkRet EXCEPT !.bool = FALSE], arg[p].conn, ctxs[p])
                 ELSE Return(p, [ErrRet(RawErr(o.kind)) EXCEPT !.bool = FALSE],
                             arg[p].conn, WithExpiry(p, 1, o))
  /\ NoReset
  /\ UNCHANGED <<lclient, eclient, image, engineVars, held, frameVars>>

IsContainerRunning(p) ==
  \/ IsContainerRunningEnter(p)
  \/ IsContainerRunningTask(p)

(***************************************************************************)
(* GetNamespaces                                                           *)
(***************************************************************************)
\* a getNamespaces that stops at "default" instead of skipping it
RECURSIVE getNamespacesBreak(_)
getNamespacesBreak(namespaces) ==
  IF namespaces = <<>> THEN <<>>
  ELSE IF Head(namespaces) # "default"
    THEN <<Head(namespaces)>> \o getNamespacesBreak(Tail(namespaces))
    ELSE <<>>

RECURSIVE getNamespaces(_)
getNamespaces(namespaces) ==
  IF namespaces = <<>> THEN <<>>
  ELSE IF Head(namespaces) # "default"
    THEN <<Head(namespaces)>> \o getNamespaces(Tail(namespaces))
    ELSE getNamespaces(Tail(namespaces))

GetNamespacesEnter(p) == Enter(p, "GetNamespaces", NoArg, "gn_conn")

\* a GetNamespaces that keeps the connection it made in c.client
GetNamespacesConnectCaching(p) ==
  /\ pc[p] = "gn_conn"
  /\ \E o \in ConnOutcomes :
       LET r == getConnection(o) IN
         /\ Dial(o, DefaultNamespace)
         /\ lclient' = [lclient EXCEPT ![p] = r.client]
         /\ client' = r.client
         /\ Log(p, Call("New", r.client, o, arg[p].cid))
         /\ IF o.ok THEN Continue(p, "gn_list", ctxs[p])
                    ELSE Return(p, ErrRet(r.err), NoConn, ctxs[p])
  /\ UNCHANGED resets
  /\ UNCHANGED <<eclient, image, containers, tasks, images, nsList, held, frameVars>>

GetNamespacesConnect(p) ==
  /\ pc[p] = "gn_conn"
  /\ \E o \in ConnOutcomes :
       LET r == getConnection(o) IN
         /\ Dial(o, DefaultNamespace)
         /\ lclient' = [lclient EXCEPT ![p] = r.client]
         /\ Log(p, Call("New", r.client, o, arg[p].cid))
         /\ IF o.ok THEN Continue(p, "gn_list", ctxs[p])
                    ELSE Return(p, ErrRet(r.err), NoConn, ctxs[p])
  /\ NoReset
  /\ UNCHANGED <<eclient, image, containers, tasks, images, nsList, held, frameVars>>

GetNamespacesList(p) ==
  /\ pc[p] = "gn_list"
  /\ \E o \in Outcomes(ctxs[p][1], Ok) :
       /\ Log(p, Call("ListNamespaces", lclient[p], o, arg[p].cid))
       /\ IF o.ok
            THEN Return(p, [OkRet EXCEPT !.names = getNamespaces(nsList)], lclient[p], ctxs[p])
            ELSE Return(p, ErrRet(RawErr(o.kind)), lclient[p], WithExpiry(p, 1, o))
  /\ NoReset
  /\ UNCHANGED <<lclient, eclient, image, engineVars, held, frameVars>>

GetNamespaces(p) ==
  \/ GetNamespacesEnter(p)
  \/ GetNamespacesConnect(p)
  \/ GetNamespacesList(p)

(***************************************************************************)
(* GetContainerTaskStatus                                                  *)
(***************************************************************************)
\* resp.Process.Status.String()
StatusString(t) == t.status

GetContainerTaskStatusEnter(p) ==
  \E cid \in CIDs : Enter(p, "GetContainerTaskStatus", [NoArg EXCEPT !.cid = cid], "ts_conn")

GetContainerTaskStatusConnect(p) ==
  /\ pc[p] = "ts_conn"
  /\ \E o \in ConnOutcomes :
       LET r == getConnection(o) IN
         /\ Dial(o, DefaultNamespace)
         /\ lclient' = [lclient EXCEPT ![p] = r.client]
         /\ Log(p, Call("New", r.client, o, arg[p].cid))
         /\ IF o.ok THEN Continue(p, "ts_get", ctxs[p])
                    ELSE Return(p, [OkRet EXCEPT !.str = "UNKNOWN"], NoConn, ctxs[p])
  /\ NoReset
  /\ UNCHANGED <<eclient, image, containers, tasks, images, nsList, held, frameVars>>

\* a GetContainerTaskStatus that hands a failed lookup on to its caller
GetContainerTaskStatusGetStrict(p) ==
  /\ pc[p] = "ts_get"
  /\ LET cid == arg[p].cid
         sem == IF HasTask(cid) THEN Ok ELSE Fail("NotFound")
     IN \E o \in Outcomes(ctxs[p][1], sem) :
          /\ Log(p, Call("TaskGet", lclient[p], o, arg[p].cid))
          /\ IF o.ok
               THEN Return(p, [OkRet EXCEPT !.str = StatusString(TaskOf(cid))], lclient[p], ctxs[p])
               ELSE Return(p, ErrRet(RawErr(o.kind)), lclient[p], WithExpiry(p, 1, o))
  /\ NoReset
  /\ UNCHANGED <<lclient, eclient, image, engineVars, held, frameVars>>

GetContainerTaskStatusGet(p) ==
  /\ pc[p] = "ts_get"
  /\ LET cid == arg[p].cid
         sem == IF HasTask(cid) THEN Ok ELSE Fail("NotFound")
     IN \E o \in Outcomes(ctxs[p][1], sem) :
          /\ Log(p, Call("TaskGet", lclient[p], o, arg[p].cid))
          /\ IF o.ok
               THEN Return(p, [OkRet EXCEPT !.str = StatusString(TaskOf(cid))], lclient[p], ctxs[p])
               ELSE Return(p, [OkRet EXCEPT !.str = "UNKNOWN"], lclient[p], WithExpiry(p, 1, o))
  /\ NoReset
  /\ UNCHANGED <<lclient, eclient, image, engineVars, held, frameVars>>

GetContainerTaskStatus(p) ==
  \/ GetContainerTaskStatusEnter(p)
  \/ GetContainerTaskStatusConnect(p)
  \/ GetContainerTaskStatusGet(p)

(***************************************************************************)
(* The engine on its own: the process of a running task exits.             *)
(***************************************************************************)
TaskExits ==
  /\ \E t \in tasks :
       /\ t.status = "RUNNING"
       /\ tasks' = (tasks \ {t}) \cup {[t EXCEPT !.status = "STOPPED"]}
  /\ UNCHANGED <<client, timeout, callers, pc, op, arg, lclient, eclient, image, ctxs,
                 ret, trace, resets, prev, lastFail, conns, containers, images, nsList, held,
                 daemon>>

Next ==
  \/ \E p \in Procs :
       \/ GetContainers(p)
       \/ CreateContainer(p)
       \/ StartContainer(p)
       \/ StopContainer(p)
       \/ IsContainerRunning(p)
       \/ GetNamespaces(p)
       \/ GetContainerTaskStatus(p)
  \/ TaskExits

Spec == Init /\ [][Next]_vars

(***************************************************************************)
(* GetNamespaces alone, against every listing the engine can report.       *)
(***************************************************************************)
InitNs == InitWith({"p1"}, NsListings)
NextNs == \E p \in Procs : GetNamespaces(p)
SpecNs == InitNs /\ [][NextNs]_vars

(***************************************************************************)
(* Two callers sharing the client, from the state in which p1's            *)
(* CreateContainer and StartContainer of c1 have both returned nil: the    *)
(* container runs, both hold the container object.                         *)
(***************************************************************************)
StartedBy(p) ==
  /\ client = NoConn
  /\ callers = Procs
  /\ pc = [q \in Procs |-> "idle"]
  /\ op = [q \in Procs |-> IF q = p THEN "StartContainer" ELSE "none"]
  /\ arg = [q \in Procs |-> IF q = p THEN [NoArg EXCEPT !.cid = "c1", !.conn = 1] ELSE NoArg]
  /\ lclient = [q \in Procs |-> NoConn]
  /\ eclient = [q \in Procs |-> NoConn]
  /\ image = [q \in Procs |-> NoImage]
  /\ ctxs = [q \in Procs |-> IF q = p THEN CancelAll(<<getContext(timeout)>>) ELSE <<>>]
  /\ ret = [q \in Procs |-> IF q = p THEN OkRet ELSE NoRet]
  /\ trace = [q \in Procs |->
               IF q = p THEN <<[call |-> "NewTask", conn |-> 1, ok |-> TRUE, kind |-> "none", task |-> "none"],
                               [call |-> "Start", conn |-> 1, ok |-> TRUE, kind |-> "none", task |-> "CREATED"]>>
                        ELSE <<>>]
  /\ resets = [q \in Procs |-> 0]
  /\ prev = [q \in Procs |-> IF q = p THEN [failed |-> FALSE, conn |-> NoConn, op |-> "CreateContainer"]
                                      ELSE NoFail]
  /\ lastFail = [failed |-> FALSE, conn |-> NoConn, op |-> "StartContainer"]
  /\ conns = <<"edge", "edge">>
  /\ containers = {"c1"}
  /\ tasks = {[cid |-> "c1", status |-> "RUNNING"]}
  /\ images = [r \in Refs |-> "unpacked"]
  /\ nsList = <<"default", "staging", "prod">>
  /\ held = [c \in CIDs |-> 1]

InitShared == timeout = 0 /\ StartedBy("p1") /\ daemon = Served
NextShared ==
  \E p \in Procs :
    \/ GetContainers(p)
    \/ StopContainer(p)
SpecShared == InitShared /\ [][NextShared]_vars


(***************************************************************************)
(* eliotd: the start action (app.Action) and parseGrpcPort.                *)
(***************************************************************************)
clientVars == <<client, timeout, callers, pc, op, arg, lclient, eclient, image, ctxs,
                ret, trace, resets, prev, lastFail, conns, containers, tasks, images,
                nsList, held>>

Addresses ==
  {DefaultListen, <<"0.0.0.0", ":", "5001">>, <<"localhost">>, <<"localhost", ":", "grpc">>,
   <<"[", ":", ":", "1]", ":", "5000">>, <<":", "5000">>}

\* strings.Split
RECURSIVE Split(_, _)
Split(s, sep) ==
  IF s = <<>> THEN << <<>> >>
  ELSE LET rest == Split(Tail(s), sep)
       IN  IF Head(s) = sep THEN << <<>> >> \o rest
           ELSE << <<Head(s)>> \o Head(rest) >> \o Tail(rest)

\* strconv.Atoi
Atoi(s) ==
  IF s = <<"5000">> THEN [ok |-> TRUE, n |-> 5000]
  ELSE IF s = <<"5001">> THEN [ok |-> TRUE, n |-> 5001]
  ELSE [ok |-> FALSE, n |-> 0]

parseGrpcPort(addr) ==
  LET parts == Split(addr, ":")
  IN  IF Len(parts) # 2 THEN [panic |-> TRUE, port |-> 0]
      ELSE IF ~Atoi(parts[2]).ok THEN [panic |-> TRUE, port |-> 0]
      ELSE [panic |-> FALSE, port |-> Atoi(parts[2]).n]

\* supervisor.Add(service); serviceCount++
Add(d, service) ==
  [d EXCEPT !.services = Append(@, service), !.serviceCount = @ + 1]

InitDaemon ==
  /\ ClientInit({}, {<<"default", "staging", "prod">>})
  /\ daemon \in {[pc |-> "grpc-api", grpcApi |-> g, lifecycle |-> l, discovery |-> d,
                   grpcListen |-> a, services |-> <<>>, serviceCount |-> 0, port |-> 0,
                   err |-> ""] : g \in BOOLEAN, l \in BOOLEAN, d \in BOOLEAN, a \in Addresses}

DaemonGrpcApi ==
  /\ daemon.pc = "grpc-api"
  /\ daemon' = [(IF daemon.grpcApi THEN Add(daemon, "api") ELSE daemon)
                  EXCEPT !.pc = "lifecycle-controller"]
  /\ UNCHANGED clientVars

DaemonLifecycle ==
  /\ daemon.pc = "lifecycle-controller"
  /\ daemon' = [(IF daemon.lifecycle THEN Add(daemon, "lifecycle") ELSE daemon)
                  EXCEPT !.pc = "discovery"]
  /\ UNCHANGED clientVars

DaemonDiscovery ==
  /\ daemon.pc = "discovery"
  /\ daemon' = IF daemon.grpcApi /\ daemon.discovery
                 THEN LET r == parseGrpcPort(daemon.grpcListen)
                      IN  IF r.panic THEN [daemon EXCEPT !.pc = "panicked"]
                          ELSE [Add(daemon, "discovery") EXCEPT !.port = r.port, !.pc = "check"]
                 ELSE [daemon EXCEPT !.pc = "check"]
  /\ UNCHANGED clientVars

\* if serviceCount == 0 { return errors.New(...) }; supervisor.Serve()
DaemonServe ==
  /\ daemon.pc = "check"
  /\ daemon' = IF daemon.serviceCount = 0
                 THEN [daemon EXCEPT !.pc = "returned", !.err = NothingToRun]
                 ELSE [daemon EXCEPT !.pc = "serving"]
  /\ UNCHANGED clientVars

\* the supervisor stops: Serve returns, the action returns nil
DaemonReturn ==
  /\ daemon.pc = "serving"
  /\ daemon' = [daemon EXCEPT !.pc = "returned"]
  /\ UNCHANGED clientVars

NextDaemon ==
  \/ DaemonGrpcApi
  \/ DaemonLifecycle
  \/ DaemonDiscovery
  \/ DaemonServe
  \/ DaemonReturn

SpecDaemon == InitDaemon /\ [][NextDaemon]_vars


(***************************************************************************)
(* Properties.                                                             *)
(***************************************************************************)
Returned(p, name) == pc[p] = "idle" /\ op[p] = name /\ ret[p].status # "none"
Finished(p) == pc[p] = "idle" /\ ret[p].status # "none"
Last(s) == s[Len(s)]

\* the calls of p's invocation that go out on a connection
EngineCalls(p) == {i \in DOMAIN trace[p] : trace[p][i].call \notin {"New", "ensureImagePulled"}}
News(p) == {i \in DOMAIN trace[p] : trace[p][i].call = "New"}
CallsOf(p, name) == {i \in DOMAIN trace[p] : trace[p][i].call = name}

\* msg carries s as a formatted argument (not in Sprintf's EXTRA complaint)
Named(msg, s) ==
  \E i \in DOMAIN msg : msg[i] = s /\ \A j \in 1..i : msg[j] # "%!(EXTRA"

\* the methods that call getConnection
ConnectingOps == {"GetContainers", "CreateContainer", "GetNamespaces", "GetContainerTaskStatus"}

\* C1 as stated: after an operation returned an error, the next operation,
\* whichever it is, makes a connection of its own and puts no call on the
\* connection the failure occurred on.
C1_NextOperationReconnects ==
  \A p \in Procs :
    (Finished(p) /\ prev[p].failed) =>
      /\ News(p) # {}
      /\ \A i \in EngineCalls(p) : trace[p][i].conn # prev[p].conn

\* C1 (amended): after an operation returned an error, a next operation that
\* is one of GetContainers, CreateContainer, GetNamespaces and
\* GetContainerTaskStatus starts by calling containerd.New, and every call it
\* puts on a connection goes out on one it made itself, never on the
\* connection the failure occurred on.
C1_NextConnectingOperationReconnects ==
  \A p \in Procs :
    (prev[p].failed /\ op[p] \in ConnectingOps) =>
      /\ (trace[p] # <<>> => trace[p][1].call = "New")
      /\ (Finished(p) => trace[p] # <<>>)
      /\ \A i \in EngineCalls(p) :
           /\ trace[p][i].conn # prev[p].conn
           /\ \E j \in 1..(i - 1) :
                /\ trace[p][j].call = "New"
                /\ trace[p][j].ok
                /\ trace[p][j].conn = trace[p][i].conn

C1_Witness ==
  \E p \in Procs :
    /\ Returned(p, "GetContainers")
    /\ prev[p].failed
    /\ prev[p].conn # NoConn
    /\ EngineCalls(p) # {}

\* C2 as stated: connect is lazy.  A connection that was made is the cached
\* one (so that the next connect finds and uses it), the cache holds at most
\* one handle, and a connect that fails returns a wrapped error and leaves
\* the cache empty.
C2_ConnectIsLazy ==
  \A p \in Procs :
    /\ client \in Handles \cup {NoConn}
    /\ (pc[p] \in {"gc_list", "gn_list", "ts_get", "cc_ensure"} => client = lclient[p])
    /\ (trace[p] # <<>> /\ Last(trace[p]).call = "New" /\ ~Last(trace[p]).ok /\ Finished(p)
          /\ op[p] # "GetContainerTaskStatus") =>
         /\ client = NoConn
         /\ ret[p].status = "err"
         /\ ret[p].err.msgs # <<>>

\* C3 as stated: when a call put on a connection fails and the operation
\* returns the error, the operation has called resetConnection.
C3_FailureInvalidates ==
  \A p \in Procs :
    (/\ Finished(p)
     /\ op[p] \in {"GetContainers", "CreateContainer", "StartContainer", "StopContainer",
                   "GetNamespaces"}
     /\ ret[p].status = "err"
     /\ Len(trace[p]) \in EngineCalls(p)) =>
      resets[p] >= 1

\* C4: a successful GetNamespaces returns no "default", returns every other
\* namespace of the engine's listing exactly once and nothing else, in the
\* order of the listing.
Pos(s, x) == CHOOSE k \in DOMAIN s : s[k] = x

C4_NamespacesFiltered ==
  \A p \in Procs :
    (Returned(p, "GetNamespaces") /\ ret[p].status = "ok") =>
      LET r == ret[p].names IN
        /\ \A i \in DOMAIN r : r[i] # "default"
        /\ \A n \in Range(nsList) \ {"default"} : Cardinality({i \in DOMAIN r : r[i] = n}) = 1
        /\ Range(r) \subseteq Range(nsList)
        /\ \A i, j \in DOMAIN r : i < j => Pos(nsList, r[i]) < Pos(nsList, r[j])

C4_Witness ==
  \E p \in Procs :
    /\ Returned(p, "GetNamespaces")
    /\ nsList = <<"staging", "default", "prod">>
    /\ ret[p].names = <<"staging", "prod">>

C6_TaskStatusNeverFails ==
  /\ [](\A p \in Procs :
          /\ Returned(p, "GetContainerTaskStatus") =>
               LET e == Last(trace[p]) IN
                 /\ ret[p].status = "ok"
                 /\ e.call \in {"New", "TaskGet"}
                 /\ (e.call = "New") => (~e.ok /\ Len(trace[p]) = 1 /\ ret[p].str = "UNKNOWN")
                 /\ (e.call = "TaskGet" /\ ~e.ok) => ret[p].str = "UNKNOWN"
                 /\ (e.call = "TaskGet" /\ e.ok) =>
                      (ret[p].str = e.task /\ e.task \in {"CREATED", "RUNNING", "STOPPED"})
          /\ pc[p] \in {"ts_conn", "ts_get"} => ENABLED GetContainerTaskStatus(p))
  /\ [][\A p \in Procs :
          /\ (pc[p] = "ts_conn" /\ pc'[p] # pc[p]) => pc'[p] \in {"ts_get", "idle"}
          /\ (pc[p] = "ts_get" /\ pc'[p] # pc[p]) => pc'[p] = "idle"]_vars

C6_Witness ==
  \E p \in Procs :
    /\ Returned(p, "GetContainerTaskStatus")
    /\ Last(trace[p]).call = "TaskGet"
    /\ ~Last(trace[p]).ok
    /\ Last(trace[p]).task = "RUNNING"
    /\ ret[p].str = "UNKNOWN"

\* C7: StopContainer always ends with one container.Delete, whatever the
\* task fetch and the task deletion answered; it returns an error exactly
\* when that deletion fails, and then it has called resetConnection and the
\* error wraps the engine's with a message naming the container id.
C7_StopContainer ==
  \A p \in Procs :
    Returned(p, "StopContainer") =>
      LET e == Last(trace[p]) IN
        /\ e.call = "ContainerDelete"
        /\ Cardinality(CallsOf(p, "ContainerDelete")) = 1
        /\ (ret[p].status = "err") <=> ~e.ok
        /\ (ret[p].status = "err") =>
             /\ resets[p] = 1
             /\ client = NoConn
             /\ ret[p].err.kind = e.kind
             /\ Len(ret[p].err.msgs) = 1
             /\ Named(ret[p].err.msgs[1], arg[p].cid)
        /\ (ret[p].status = "ok") => resets[p] = 0

C7_Witness ==
  \E p \in Procs :
    /\ Returned(p, "StopContainer")
    /\ ret[p].status = "ok"
    /\ trace[p][1].call = "Task"
    /\ ~trace[p][1].ok

\* C8: a CreateContainer that got past connecting calls ensureImagePulled
\* exactly once, and when Pull or Unpack fails it returns an error and has
\* not called NewContainer.
C8_EnsureImageOnce ==
  \A p \in Procs :
    op[p] = "CreateContainer" =>
      /\ Cardinality(CallsOf(p, "ensureImagePulled")) <= 1
      /\ Cardinality(CallsOf(p, "Pull")) <= 1
      /\ Cardinality(CallsOf(p, "Unpack")) <= 1
      /\ (trace[p] # <<>> /\ trace[p][1].ok /\ pc[p] # "cc_ensure") =>
           Cardinality(CallsOf(p, "ensureImagePulled")) = 1
      /\ (\E i \in CallsOf(p, "Pull") \cup CallsOf(p, "Unpack") : ~trace[p][i].ok) =>
           /\ Finished(p)
           /\ ret[p].status = "err"
           /\ CallsOf(p, "NewContainer") = {}

C8_Witness ==
  \E p \in Procs :
    /\ Returned(p, "CreateContainer")
    /\ ret[p].status = "err"
    /\ Last(trace[p]).call = "Unpack"
    /\ arg[p].cid \notin containers

\* the engine holds a task of the container, made by a StartContainer that
\* succeeded, at the moment of p's lookup
SawStartedTask(p) == trace[p][1].task \in {"RUNNING", "STOPPED"}

\* C9 as stated: while the task of a started container exists,
\* IsContainerRunning returns true; after a successful StopContainer the task
\* is absent and IsContainerRunning returns false; a container never has
\* more than one task.
C9_Lifecycle ==
  /\ \A p \in Procs :
       /\ (Returned(p, "IsContainerRunning") /\ SawStartedTask(p)) => ret[p].bool
       /\ (Returned(p, "IsContainerRunning") /\ trace[p][1].task = "none") => ~ret[p].bool
       /\ (Returned(p, "StopContainer") /\ ret[p].status = "ok") => ~HasTask(arg[p].cid)
  /\ \A c \in CIDs : Cardinality({t \in tasks : t.cid = c}) <= 1

\* C9 (amended): while the task of a started container exists,
\* IsContainerRunning returns true when its lookup is answered and (false,
\* err) when the lookup fails on the way (transport, deadline); a
\* StopContainer that returns nil leaves the container without a task, and
\* IsContainerRunning returns false when there is none; a container never
\* has more than one task.
C9_LifecycleWhenAnswered ==
  /\ [](/\ \A p \in Procs :
             /\ (Returned(p, "IsContainerRunning") /\ SawStartedTask(p)) =>
                  /\ ret[p].bool <=> trace[p][1].ok
                  /\ ~trace[p][1].ok =>
                       (ret[p].status = "err" /\ trace[p][1].kind # "NotFound")
             /\ (Returned(p, "IsContainerRunning") /\ trace[p][1].task = "none") =>
                  ~ret[p].bool
        /\ \A c \in CIDs : Cardinality({t \in tasks : t.cid = c}) <= 1)
  /\ [][\A p \in Procs :
          (pc[p] = "st_cdel" /\ pc'[p] = "idle" /\ ret'[p].status = "ok") =>
            \A t \in tasks' : t.cid # arg[p].cid]_vars

C9_Witness ==
  \E p \in Procs :
    /\ Returned(p, "IsContainerRunning")
    /\ trace[p][1].task = "none"
    /\ ~ret[p].bool
    /\ ret[p].status = "ok"
    /\ prev[p].op = "StopContainer"
    /\ ~prev[p].failed

\* C10 as stated: an error CreateContainer, StartContainer or StopContainer
\* returns for a call that failed on a connection is wrapped, and its message
\* names the subject: the image (reference or digest) for CreateContainer,
\* the container id for the other two.
C10_ErrorsNameSubject ==
  \A p \in Procs :
    (Finished(p) /\ ret[p].status = "err"
       /\ op[p] \in {"CreateContainer", "StartContainer", "StopContainer"}
       /\ Last(trace[p]).call # "New") =>
      /\ ret[p].err.msgs # <<>>
      /\ (op[p] = "CreateContainer" /\ trace[p][1].ok) =>
           \/ Named(ret[p].err.msgs[1], arg[p].ref)
           \/ Named(ret[p].err.msgs[1], Digest(arg[p].ref))
      /\ (op[p] # "CreateContainer") => Named(ret[p].err.msgs[1], arg[p].cid)


\* the entries of p's trace that ensureImagePulled logged: those after its
\* entry marker, up to and including Unpack
EipStart(p) == CHOOSE k \in CallsOf(p, "ensureImagePulled") : TRUE
EipCalls(p) ==
  IF CallsOf(p, "ensureImagePulled") = {} THEN <<>>
  ELSE LET rest == SubSeq(trace[p], EipStart(p) + 1, Len(trace[p]))
       IN  SubSeq(rest, 1, IF Len(rest) < 3 THEN Len(rest) ELSE 3)
ConnectionErrorMsg == "Unable to create connection to containerd"

\* C11: ensureImagePulled runs connect, pull, unpack in that order, each only
\* after the one before it succeeded.  A failed connect returns the
\* connection error with no resetConnection and no pull; a failed pull calls
\* resetConnection once and returns an error naming the reference, with no
\* unpack; a failed unpack calls resetConnection once and returns an error
\* naming the digest; the caller goes on past ensureImagePulled, holding the
\* image, only after pull and unpack both succeeded.
C11_EnsureImagePulledOrder ==
  \A p \in Procs :
    LET e == EipCalls(p) IN
    /\ pc[p] \in {"eip_conn", "eip_pull", "eip_unpack"} => CallsOf(p, "ensureImagePulled") # {}
    /\ Len(e) >= 1 => e[1].call = "New"
    /\ Len(e) >= 2 => e[2].call = "Pull" /\ e[1].ok /\ e[2].conn = e[1].conn
    /\ Len(e) >= 3 => e[3].call = "Unpack" /\ e[2].ok /\ e[3].conn = e[1].conn
    /\ (pc[p] = "eip_pull" => Len(e) = 1) /\ (pc[p] = "eip_unpack" => Len(e) = 2)
    /\ (Len(e) >= 1 /\ ~Last(e).ok) =>
         /\ Finished(p) /\ ret[p].status = "err" /\ Last(trace[p]) = Last(e)
         /\ ret[p].image = NoImage
         /\ Len(e) = 1 => resets[p] = 0 /\ ret[p].err.msgs[1] = <<ConnectionErrorMsg>>
         /\ Len(e) = 2 => resets[p] = 1 /\ Named(ret[p].err.msgs[1], arg[p].ref)
         /\ Len(e) = 3 => resets[p] = 1 /\ Named(ret[p].err.msgs[1], Digest(arg[p].ref))
         /\ ret[p].err.kind = Last(e).kind
    /\ (CallsOf(p, "GenerateSpec") # {} \/ pc[p] \in {"cc_spec", "cc_new"}) =>
         /\ Len(e) = 3 /\ e[2].ok /\ e[3].ok
         /\ image[p] = ImageOf(arg[p].ref)
         /\ images[arg[p].ref] = "unpacked"

C11_Witness ==
  \E p \in Procs :
    /\ Returned(p, "CreateContainer") /\ ret[p].status = "err"
    /\ Len(EipCalls(p)) = 2 /\ ~EipCalls(p)[2].ok /\ resets[p] = 1


\* C12 as stated: StartContainer calls NewTask and then, only if that
\* succeeded, Start; whichever of the two fails, it calls resetConnection
\* once and returns a wrapped error whose message names the container id;
\* it returns nil only after both succeeded.
C12_StartContainer ==
  \A p \in Procs :
    op[p] = "StartContainer" =>
      LET t == trace[p] IN
      /\ Len(t) <= 2
      /\ Len(t) >= 1 => t[1].call = "NewTask"
      /\ Len(t) = 2 => t[2].call = "Start" /\ t[1].ok
      /\ (Len(t) >= 1 /\ ~Last(t).ok) =>
           /\ Finished(p) /\ ret[p].status = "err" /\ resets[p] = 1
           /\ Len(ret[p].err.msgs) = 1
           /\ Named(ret[p].err.msgs[1], arg[p].cid)
      /\ (Finished(p) /\ ret[p].status = "ok") =>
           Len(t) = 2 /\ t[1].ok /\ t[2].ok /\ resets[p] = 0


AllCancelled(cs) == \A i \in DOMAIN cs : cs[i].cancelled
InEnsureImagePulled(p) == pc[p] \in {"eip_conn", "eip_pull", "eip_unpack"}

CtxInv ==
  \A p \in Procs :
    /\ pc[p] = "idle" => AllCancelled(ctxs[p])
    /\ pc[p] # "idle" => Len(ctxs[p]) >= 1 /\ ~ctxs[p][1].cancelled
    /\ Len(ctxs[p]) = (IF CallsOf(p, "ensureImagePulled") # {} THEN 2
                       ELSE IF op[p] = "none" THEN 0 ELSE 1)
    /\ InEnsureImagePulled(p) => ~ctxs[p][2].cancelled
    /\ pc[p] \in {"cc_spec", "cc_new"} => ctxs[p][2].cancelled
    /\ \A i \in DOMAIN ctxs[p] :
         /\ ctxs[p][i].deadline <=> timeout > 0
         /\ ctxs[p][i].expired => ctxs[p][i].deadline

CtxStep ==
  \A p \in Procs :
    /\ (pc[p] = "idle" /\ pc'[p] # "idle") =>
         /\ AllCancelled(ctxs[p])
         /\ ctxs'[p] = <<[deadline |-> timeout > 0, expired |-> FALSE, cancelled |-> FALSE]>>
    /\ (pc[p] = "cc_ensure" /\ pc'[p] # "cc_ensure") =>
         ctxs'[p] = Append(ctxs[p], [deadline |-> timeout > 0, expired |-> FALSE, cancelled |-> FALSE])
    /\ \A i \in DOMAIN ctxs[p] :
         (ctxs[p][i].cancelled /\ i \in DOMAIN ctxs'[p] /\ pc[p] # "idle") => ctxs'[p][i].cancelled

\* C13: every method makes its context anew on entry (ensureImagePulled a
\* second one of its own), with a deadline exactly when the configured
\* timeout is positive, and has cancelled every context it made by the time
\* it returns, whether it returns a result or an error: whenever a caller is
\* between invocations none of the contexts of its invocations is
\* un-cancelled, and ensureImagePulled's context is cancelled before
\* CreateContainer goes on.
C13_ContextsReleased == []CtxInv /\ [][CtxStep]_vars

C13_Witness ==
  \E p \in Procs :
    /\ Returned(p, "CreateContainer") /\ ret[p].status = "err"
    /\ Len(ctxs[p]) = 2 /\ AllCancelled(ctxs[p])
    /\ timeout > 0 /\ ctxs[p][2].expired


\* the calls of p's invocation that failed and were followed by another call
\* or by more work of the same invocation
ToleratedFailures(p) ==
  {i \in DOMAIN trace[p] : ~trace[p][i].ok /\ (i < Len(trace[p]) \/ pc[p] # "idle")}

\* C14 as stated: within one invocation a call that fails is not made again
\* and no call follows it, the invocation returns; only a failed task fetch
\* of StopContainer is followed by more work.
C14_NoRetry ==
  \A p \in Procs :
    \A i \in ToleratedFailures(p) :
      op[p] = "StopContainer" /\ trace[p][i].call = "Task"

\* C14 (amended): within one invocation a call that fails is not made again
\* and no call follows it, the invocation returns, except in StopContainer,
\* where a failed task fetch and a failed task deletion are both followed
\* by the container deletion; a method that connects makes no further
\* connection after any failure, and no call is made more than once in an
\* invocation (containerd.New: once by the method and once by
\* ensureImagePulled).
C14_NoRetryButStop ==
  \A p \in Procs :
    /\ \A i \in ToleratedFailures(p) :
         /\ op[p] = "StopContainer" /\ trace[p][i].call \in {"Task", "TaskDelete"}
         /\ i < Len(trace[p]) => trace[p][i + 1].call = "ContainerDelete"
    /\ \A i, j \in DOMAIN trace[p] :
         (i < j /\ trace[p][i].call = trace[p][j].call) =>
           /\ trace[p][i].call = "New" /\ trace[p][i].ok
           /\ j > EipStart(p) /\ i < EipStart(p)
    /\ \A i, j \in DOMAIN trace[p] :
         (i < j /\ ~trace[p][i].ok) => trace[p][j].call # "New"

C14_Witness ==
  \E p \in Procs :
    /\ Returned(p, "StopContainer")
    /\ \E i \in CallsOf(p, "TaskDelete") :
         ~trace[p][i].ok /\ trace[p][i + 1].call = "ContainerDelete"


Overlapped(p) == \E q \in Procs \ {p} : pc[q] # "idle"
OwnHandle(p, i) ==
  \E j \in News(p) : j < i /\ trace[p][j].ok /\ trace[p][j].conn = trace[p][i].conn

\* C15 as stated: with the operations of two callers interleaved, every call
\* an operation puts on a connection goes out on a handle that the same
\* invocation got from containerd.New.
C15_OwnHandleOnly ==
  \A p \in Procs :
    (pc[p] # "idle" /\ Overlapped(p)) =>
      \A i \in EngineCalls(p) : trace[p][i].conn # NoConn /\ OwnHandle(p, i)

HandleInv ==
  \A p \in Procs :
    \A i \in EngineCalls(p) :
      /\ trace[p][i].conn \in 1..Len(conns)
      /\ IF op[p] \in ConnectingOps
           THEN /\ OwnHandle(p, i)
                /\ \A q \in Procs \ {p} : \A j \in News(q) : trace[q][j].conn # trace[p][i].conn
           ELSE trace[p][i].conn = arg[p].conn /\ News(p) = {}

HandleStep ==
  \A p, q \in Procs :
    (p # q /\ resets'[q] # resets[q]) =>
      /\ lclient'[p] = lclient[p] /\ eclient'[p] = eclient[p] /\ arg'[p] = arg[p]
      /\ pc'[p] = pc[p] /\ trace'[p] = trace[p]

\* C15 (amended): with the operations of two callers interleaved, every call
\* goes out on a connection the engine accepted, never on an absent handle;
\* an operation that connects (GetContainers, CreateContainer, GetNamespaces,
\* GetContainerTaskStatus) puts its calls only on a handle its own
\* invocation got from containerd.New, which no other caller got; StartContainer,
\* StopContainer and IsContainerRunning connect not at all and put theirs on
\* the handle their container object carries; and a resetConnection by one
\* caller changes neither the handles another caller's invocation holds nor
\* where that invocation stands.
C15_HandlesUnderInterleaving == []HandleInv /\ [][HandleStep]_vars

C15_Witness ==
  \E p, q \in Procs :
    /\ p # q
    /\ Returned(p, "GetContainers") /\ ret[p].status = "ok"
    /\ ~prev[p].failed /\ prev[p].op = "StartContainer"
    /\ Returned(q, "StopContainer") /\ ret[q].status = "err" /\ resets[q] = 1
    /\ lastFail.op = "GetContainers" /\ ~lastFail.failed


Stopping(p) == op[p] = "StopContainer" /\ pc[p] # "idle"
Issued(p, name) == CallsOf(p, name) # {}

BothStopped(p, q) ==
  /\ p # q
  /\ Returned(p, "StopContainer") /\ Returned(q, "StopContainer")
  /\ arg[p].cid = arg[q].cid
  /\ \A r \in {p, q} :
       /\ \E i \in CallsOf(r, "Task") : trace[r][i].ok
       /\ Issued(r, "TaskDelete") /\ Issued(r, "ContainerDelete")

\* C16: the client does not serialize StopContainer calls on one container:
\* while one caller's StopContainer is under way, at whichever step, another
\* caller holding the container can enter StopContainer and take each of its
\* steps (task fetch, task deletion, container deletion), so both can send
\* the engine their deletions of the same container; of two such calls that
\* both sent the container deletion at most one returns nil, and a call
\* whose container deletion failed returns an error naming the container.
C16_StopsNotSerialized ==
  \A p, q \in Procs :
    /\ (p # q /\ Stopping(p)) =>
         /\ (pc[q] = "idle" /\ held[arg[p].cid] # NoConn) => ENABLED StopContainerEnter(q)
         /\ pc[q] = "st_task" => ENABLED StopContainerTask(q)
         /\ pc[q] = "st_tdel" => ENABLED StopContainerTaskDelete(q)
         /\ pc[q] = "st_cdel" => ENABLED StopContainerDelete(q)
    /\ BothStopped(p, q) =>
         /\ ~(ret[p].status = "ok" /\ ret[q].status = "ok")
         /\ ~Last(trace[q]).ok => ret[q].status = "err" /\ Named(ret[q].err.msgs[1], arg[q].cid)

C16_Witness ==
  \E p, q \in Procs :
    /\ BothStopped(p, q)
    /\ ret[p].status = "ok" /\ ret[q].status = "err"
    /\ Last(trace[q]).kind = "NotFound"
    /\ \E i \in CallsOf(q, "TaskDelete") : trace[q][i].kind = "NotFound"


AnyEnabled(d) == d.grpcApi \/ d.lifecycle \/ d.discovery
Concluded(d) == d.pc \in {"serving", "returned"}

\* C17 as stated: the start action returns the "Nothing to run" error
\* exactly when grpc-api, lifecycle-controller and discovery are all
\* disabled; with any of the three enabled it adds at least one service to
\* the supervisor and serves.  (Runs in which parseGrpcPort panics are left
\* aside.)
C17_NothingToRunIffNoneEnabled ==
  Concluded(daemon) =>
    /\ daemon.err = NothingToRun <=> ~AnyEnabled(daemon)
    /\ AnyEnabled(daemon) => daemon.services # <<>> /\ daemon.err = ""


\* C18: c.client is nil in every reachable state: nil after construction,
\* no step of any method stores a connection in it, so a resetConnection,
\* which writes nil over nil, leaves the client's fields as they were.
C18_CacheAlwaysAbsent ==
  /\ [](client = NoConn)
  /\ [][client' = client /\ timeout' = timeout]_vars

C18_Witness ==
  \E p \in Procs :
    /\ Finished(p) /\ resets[p] >= 1
    /\ \E i \in News(p) : trace[p][i].ok
    /\ client = NoConn


ContainerOps == {"StartContainer", "StopContainer", "IsContainerRunning"}
MentionsConnecting(err) == \E i \in DOMAIN err.msgs : err.msgs[i] = <<ConnectionErrorMsg>>

\* C19: how often an invocation calls containerd.New is fixed by the method:
\* GetContainers, GetNamespaces and GetContainerTaskStatus call it once, as
\* their first call; CreateContainer calls it once and, when that succeeded,
\* once more as the first call of ensureImagePulled, which itself calls it
\* once, both connections in the pod's namespace; StartContainer,
\* StopContainer and IsContainerRunning never call it and never return the
\* connection error.
C19_ConnectionAttempts ==
  \A p \in Procs :
    LET n == Cardinality(News(p)) IN
    /\ op[p] \in {"GetContainers", "GetNamespaces", "GetContainerTaskStatus"} =>
         /\ n <= 1
         /\ (n = 1 \/ Finished(p)) => n = 1 /\ trace[p][1].call = "New"
    /\ op[p] = "CreateContainer" =>
         /\ n <= 2
         /\ (n >= 1 \/ Finished(p)) => trace[p][1].call = "New"
         /\ Issued(p, "ensureImagePulled") <=> (n >= 1 /\ trace[p][1].ok /\ pc[p] # "cc_ensure")
         /\ (Issued(p, "ensureImagePulled") /\ pc[p] # "eip_conn") =>
              /\ n = 2
              /\ Cardinality({i \in News(p) : i > EipStart(p)}) = 1
              /\ trace[p][EipStart(p) + 1].call = "New"
         /\ Finished(p) => n = (IF trace[p][1].ok THEN 2 ELSE 1)
         /\ \A i \in News(p) : trace[p][i].ok => conns[trace[p][i].conn] = arg[p].ns
    /\ op[p] \in ContainerOps =>
         /\ n = 0
         /\ ~MentionsConnecting(ret[p].err)

C19_Witness ==
  \E p \in Procs :
    /\ Returned(p, "CreateContainer") /\ ret[p].status = "ok"
    /\ Cardinality(News(p)) = 2
    /\ \A i \in News(p) : conns[trace[p][i].conn] = arg[p].ns

=============================================================================
